---- MODULE Spec2Model ----
(***************************************************************************)
(* Model of memory_optimizer.agent.MemoryOptimizationAgent.optimize_code,  *)
(* of analyzer.CodeAnalyzer.analyze_code and of                            *)
(* optimizer.MemoryOptimizer.apply_optimization.                           *)
(*                                                                         *)
(* A source text is a sequence of top-level chunks (blank text, comments,  *)
(* malformed fragments, imports, function definitions, class definitions,  *)
(* bare statements).  The substring tests of the code ("..." in code) and  *)
(* the ast-based detectors are both computed from that structure, so a     *)
(* text can carry a signature in a comment without carrying the idiom in   *)
(* its tree, and the other way round.                                      *)
(***************************************************************************)
EXTENDS Integers, Sequences, FiniteSets, TLC

\* Longest input text, in chunks.
MaxChunks == 2

----------------------------------------------------------------------------
(* Source text: statements, functions, classes, chunks.                    *)

\* One statement of a function body.
\*   s    : "plain" | "read" | "readlines" | "comp" | "listrange"
\*          | "yieldloop" | "yieldchain" | "genexp" | "array"
\*   lhs  : name the value is bound to ("" when it is returned)
\*   elt, var, iter, cond : parts of a comprehension / generator expression
\*          (var, iter: "" when the target / iterable is not a plain name;
\*           cond: "" when there is no filter)
\*   nfor : number of for-clauses
\*   multiline : the comprehension is written over several lines
Stmt(s, lhs, elt, var, iter, cond, nfor) ==
    [s |-> s, lhs |-> lhs, elt |-> elt, var |-> var, iter |-> iter,
     cond |-> cond, nfor |-> nfor, multiline |-> FALSE]

Simple(s) == Stmt(s, "", "", "", "", "", 0)

\* with open(filename, 'r') as f: data = f.read()
ReadStmt == Simple("read")
\* with open(filename, 'r') as f: lines = f.readlines()
ReadlinesStmt == Simple("readlines")
\* return list(range(arg)); elt holds the text of the argument
ListRange(arg) == Stmt("listrange", "", arg, "", "", "", 0)
\* return list(range(1000000))
ListRangeStmt == ListRange("1000000")
\* return x + y
PlainStmt == Simple("plain")
\* [elt for var in iter if cond]
Comp(lhs, elt, var, iter, cond, nfor) == Stmt("comp", lhs, elt, var, iter, cond, nfor)
\* the same, with the element, the for-clause and the filter each on a
\* line of its own between the brackets
MultilineComp(lhs, elt, var, iter, cond, nfor) ==
    [Comp(lhs, elt, var, iter, cond, nfor) EXCEPT !.multiline = TRUE]

\* One chunk of a text.
\*   k        : "ws" | "comment" | "junk" | "badchar" | "import" | "def"
\*              | "class" | "stmt"
\*   name     : function / class / imported name
\*   param    : the (non-self) parameter of a function
\*   typed    : the parameter list carries annotations
\*   doc      : docstring
\*   body     : statements of a function or of a bare statement chunk
\*   hasSlots, slots : the class assigns __slots__, and the names it lists
\*   init     : the self.<attr> assignments of __init__, in source order,
\*              each marked as nested in a compound statement or not, and
\*              as annotated (self.x: int = x) or plain (self.x = x)
\*   methods  : the methods of a class other than __init__
\*   mentions : signatures spelled out in a comment or string
Chunk(k, name, param, typed, doc, body, hasSlots, slots, init, methods, mentions) ==
    [k |-> k, name |-> name, param |-> param, typed |-> typed, doc |-> doc,
     body |-> body, hasSlots |-> hasSlots, slots |-> slots, init |-> init,
     methods |-> methods, mentions |-> mentions]

Ws == Chunk("ws", "", "", FALSE, "", <<>>, FALSE, <<>>, <<>>, <<>>, {})
Comment(mentions) == Chunk("comment", "", "", FALSE, "", <<>>, FALSE, <<>>, <<>>, <<>>, mentions)
Junk(mentions) == Chunk("junk", "", "", FALSE, "", <<>>, FALSE, <<>>, <<>>, <<>>, mentions)
BadChar == Chunk("badchar", "", "", FALSE, "", <<>>, FALSE, <<>>, <<>>, <<>>, {})
Import(name) == Chunk("import", name, "", FALSE, "", <<>>, FALSE, <<>>, <<>>, <<>>, {})
Def(name, param, typed, doc, body) ==
    Chunk("def", name, param, typed, doc, body, FALSE, <<>>, <<>>, <<>>, {})
Class(name, hasSlots, slots, init, methods) ==
    Chunk("class", name, "", FALSE, "", <<>>, hasSlots, slots, init, methods, {})
BareStmt(body) == Chunk("stmt", "", "", FALSE, "", body, FALSE, <<>>, <<>>, <<>>, {})

Attr(a) == [attr |-> a, nested |-> FALSE, ann |-> FALSE]
NestedAttr(a) == [attr |-> a, nested |-> TRUE, ann |-> FALSE]
AnnAttr(a) == [attr |-> a, nested |-> FALSE, ann |-> TRUE]

----------------------------------------------------------------------------
(* The texts the model feeds to optimize_code.                             *)

\* tests/fixtures/sample_code.py, and texts that separate the substring
\* tests from the tree.
DefAdd == Def("add", "x", FALSE, "", <<PlainStmt>>)
DefReadFile ==
    Def("read_file", "filename", FALSE, "",
        <<ReadStmt, Comp("", "line.upper()", "line", "", "", 1)>>)
DefProcessFileLines ==
    Def("process_file_lines", "filename", FALSE, "",
        <<ReadlinesStmt, Comp("", "line.strip().upper()", "line", "lines", "", 1)>>)
DefLoad == Def("load", "path", FALSE, "", <<ReadStmt>>)
DefProcessNumbers ==
    Def("process_numbers", "numbers", FALSE, "",
        <<Comp("", "n * 2", "n", "numbers", "n > 0", 1)>>)
DefTernary ==
    Def("pick", "xs", FALSE, "",
        <<Comp("", "x", "x", "xs", "(x if x else 0)", 1)>>)
\* return [item for row in matrix for item in row]
DefFlatten ==
    Def("flatten_matrix", "matrix", FALSE, "",
        <<Comp("", "item", "row", "matrix", "", 2)>>)
\* return [x + 1 for x in xs]
DefIncr == Def("incr", "xs", FALSE, "", <<Comp("", "x + 1", "x", "xs", "", 1)>>)
\* filtered = [x for x in data if x > 0]
\* squared = [x**2 for x in filtered]
\* return [x for x in squared if x < 1000]
DefChained ==
    Def("process_data", "data", FALSE, "",
        << Comp("filtered", "x", "x", "data", "x > 0", 1),
           Comp("squared", "x**2", "x", "filtered", "", 1),
           Comp("", "x", "x", "squared", "x < 1000", 1) >>)
\* the same pipeline under other names
DefChainedOther ==
    Def("pipeline", "data", FALSE, "",
        << Comp("positive", "x", "x", "data", "x > 0", 1),
           Comp("squares", "x**2", "x", "positive", "", 1),
           Comp("", "x", "x", "squares", "x < 1000", 1) >>)
DefRange == Def("create_large_list", "", FALSE, "", <<ListRangeStmt>>)
\* return list(range(n))
DefSmallRange == Def("make_list", "n", FALSE, "", <<ListRange("n")>>)
ClassPerson ==
    Class("Person", FALSE, <<>>, <<Attr("name"), Attr("age"), Attr("email")>>, <<>>)
ClassSlots ==
    Class("OptimizedClass", TRUE, <<"name", "value">>,
          <<Attr("name"), Attr("value")>>, <<>>)
ClassDataProcessor ==
    Class("DataProcessor", FALSE, <<>>, <<Attr("name"), Attr("cache")>>,
          << Def("process_file", "filename", FALSE, "",
                 <<ReadStmt, Comp("", "line.upper()", "line", "lines", "line.strip()", 1)>>),
             Def("process_numbers", "numbers", FALSE, "",
                 <<Comp("", "n * 2", "n", "numbers", "n > 0", 1)>>) >>)
ClassLoader ==
    Class("Loader", FALSE, <<>>, <<Attr("name")>>,
          << Def("load", "path", FALSE, "", <<ReadStmt>>),
             Def("double", "numbers", FALSE, "",
                 <<Comp("", "n * 2", "n", "numbers", "n > 0", 1)>>) >>)
\* if debug: self.debug = debug
\* self.host = host
ClassConfig ==
    Class("Config", FALSE, <<>>, <<NestedAttr("debug"), Attr("host")>>, <<>>)
\* self.count = 0; self.total = 0; self.count = 1
ClassCounter ==
    Class("Counter", FALSE, <<>>, <<Attr("count"), Attr("total"), Attr("count")>>, <<>>)
\* self.x: int = x
ClassPoint == Class("Point", FALSE, <<>>, <<AnnAttr("x")>>, <<>>)
CommentMixed == Comment({"class DataProcessor", "process_file", "process_numbers"})
CommentRead == Comment({"def read_file(filename)", "with open(", ".read()"})
CommentReadSplit == Comment({".read()", ".read().split"})
JunkPlain == Junk({})
JunkMixed == Junk({"class DataProcessor", "process_file", "process_numbers"})

Catalog ==
    { Ws, CommentMixed, CommentRead, JunkPlain, JunkMixed, BadChar,
      DefAdd, DefReadFile, DefProcessFileLines, DefLoad, DefProcessNumbers,
      DefTernary, DefRange, ClassPerson, ClassSlots, ClassDataProcessor,
      ClassLoader, ClassConfig, ClassCounter, ClassPoint,
      DefFlatten, DefIncr, DefChained, DefChainedOther,
      DefSmallRange, CommentReadSplit }

SeqsUpTo(S, n) == UNION { [1..m -> S] : m \in 0..n }

Inputs == SeqsUpTo(Catalog, MaxChunks)

----------------------------------------------------------------------------
(* Reading a text: substring tests, the parser, the tree walks.            *)

Range(q) == { q[i] : i \in 1..Len(q) }

RECURSIVE Flatten(_)
Flatten(qq) == IF qq = <<>> THEN <<>> ELSE Head(qq) \o Flatten(Tail(qq))

MapSeq(q, Op(_)) == [i \in 1..Len(q) |-> Op(q[i])]

\* The functions of a chunk that carry a body: the function itself, or the
\* methods of a class.
ChunkFuncs(c) ==
    IF c.k = "def" THEN <<c>> ELSE IF c.k = "class" THEN c.methods ELSE <<>>

\* Every statement of the text, chunk by chunk.
ChunkStmts(c) ==
    IF c.k \in {"def", "stmt"} THEN c.body
    ELSE IF c.k = "class"
         THEN Flatten([i \in 1..Len(c.methods) |-> c.methods[i].body])
         ELSE <<>>

AllStmts(code) == Flatten([i \in 1..Len(code) |-> ChunkStmts(code[i])])

\* name contains sig as a substring, over the names of the model
NameHasSub(name, sig) ==
    \/ name = sig
    \/ sig = "process_file" /\ name = "process_file_lines"

\* sig in code
Contains(code, sig) ==
    \/ \E i \in 1..Len(code) : sig \in code[i].mentions
    \/ sig = "class DataProcessor"
         /\ \E i \in 1..Len(code) : code[i].k = "class" /\ code[i].name = "DataProcessor"
    \/ sig \in {"process_file", "process_numbers"}
         /\ \E i \in 1..Len(code) :
              \E j \in 1..Len(ChunkFuncs(code[i])) :
                 NameHasSub(ChunkFuncs(code[i])[j].name, sig)
    \/ sig \in {"def read_file(filename)", "def process_file_lines(filename)"}
         /\ \E i \in 1..Len(code) :
              /\ code[i].k = "def"
              /\ ~code[i].typed
              /\ code[i].param = "filename"
              /\ \/ sig = "def read_file(filename)" /\ code[i].name = "read_file"
                 \/ sig = "def process_file_lines(filename)"
                      /\ code[i].name = "process_file_lines"
    \/ sig = "with open("
         /\ \E st \in Range(AllStmts(code)) : st.s \in {"read", "readlines", "yieldloop"}
    \/ sig = ".read()" /\ \E st \in Range(AllStmts(code)) : st.s = "read"
    \/ sig = ".readlines()" /\ \E st \in Range(AllStmts(code)) : st.s = "readlines"
    \/ sig \in {"filtered = [", "squared = ["}
         /\ \E st \in Range(AllStmts(code)) :
              /\ st.s = "comp"
              /\ \/ sig = "filtered = [" /\ st.lhs = "filtered"
                 \/ sig = "squared = [" /\ st.lhs = "squared"

\* as IsBlank, with the test "not code" in place of "not code.strip()"
IsBlankEmptyOnly(code) == code = <<>>

\* not code.strip()
IsBlank(code) == \A i \in 1..Len(code) : code[i].k = "ws"

\* ast.unparse (the branch taken where ast has it, Python 3.9 and later): a
\* conditional expression is written in parentheses where the grammar asks
\* for them, and the text of the expression alone comes without.
BareTernary == "x if x else 0"
Unparse(e) == IF e = "(x if x else 0)" THEN BareTernary ELSE e

\* ast.parse(code): "ok", or the exception it raises.  A lone surrogate
\* cannot be encoded (UnicodeEncodeError, a ValueError); a malformed
\* fragment, or a filter that is a bare conditional expression, is a
\* SyntaxError.
Parse(code) ==
    IF \E i \in 1..Len(code) : code[i].k = "badchar" THEN "ValueError"
    ELSE IF \/ \E i \in 1..Len(code) : code[i].k = "junk"
            \/ \E st \in Range(AllStmts(code)) :
                 st.s \in {"comp", "genexp"} /\ st.cond = BareTernary
         THEN "SyntaxError"
         ELSE "ok"

\* The FunctionDef nodes of the tree in ast.walk (breadth-first) order:
\* the top-level functions, then the methods of the classes (__init__
\* first, when the class has one).
InitDef == Def("__init__", "", FALSE, "", <<>>)
ClassFuncDefs(c) ==
    IF c.k # "class" THEN <<>>
    ELSE (IF c.init # <<>> THEN <<InitDef>> ELSE <<>>) \o c.methods
FunctionDefs(code) ==
    SelectSeq(code, LAMBDA c : c.k = "def")
      \o Flatten([i \in 1..Len(code) |-> ClassFuncDefs(code[i])])

----------------------------------------------------------------------------
(* Detectors.                                                              *)

Detail(type, function, class_name, instance_vars) ==
    [type |-> type, function |-> function, class_name |-> class_name,
     instance_vars |-> instance_vars]

DetectFileOperations(code) ==
    MapSeq(SelectSeq(AllStmts(code), LAMBDA st : st.s \in {"read", "readlines"}),
           LAMBDA st : Detail("file_read", "", "", <<>>))

DetectListComprehensions(code) ==
    MapSeq(SelectSeq(AllStmts(code), LAMBDA st : st.s = "comp"),
           LAMBDA st : Detail("list_comp", "", "", <<>>))

\* ast.walk over __init__ is breadth-first: the assignments that are
\* statements of the body come before those nested in compound statements.
\* Only ast.Assign nodes are read: an annotated assignment is passed over.
ExtractInstanceVars(c) ==
    MapSeq(SelectSeq(c.init, LAMBDA a : ~a.nested /\ ~a.ann)
             \o SelectSeq(c.init, LAMBDA a : a.nested /\ ~a.ann),
           LAMBDA a : a.attr)

DetectClassDefinitions(code) ==
    MapSeq(SelectSeq(code, LAMBDA c : c.k = "class" /\ ~c.hasSlots),
           LAMBDA c : Detail("class_without_slots", "", c.name, ExtractInstanceVars(c)))

DetectDataStructures(code) ==
    MapSeq(SelectSeq(AllStmts(code), LAMBDA st : st.s = "listrange"),
           LAMBDA st : Detail("list_range", "", "", <<>>))

Opt(kind, details) == [kind |-> kind, details |-> details]

\* as DetectOptimizations, with the class check made before the
\* list-comprehension check
DetectOptimizationsClassFirst(code) ==
    (IF DetectFileOperations(code) # <<>>
       THEN <<Opt("file_operations", DetectFileOperations(code))>> ELSE <<>>)
    \o (IF DetectClassDefinitions(code) # <<>>
       THEN <<Opt("class_definitions", DetectClassDefinitions(code))>> ELSE <<>>)
    \o (IF DetectListComprehensions(code) # <<>>
       THEN <<Opt("list_comprehensions", DetectListComprehensions(code))>> ELSE <<>>)
    \o (IF DetectDataStructures(code) # <<>>
       THEN <<Opt("data_structures", DetectDataStructures(code))>> ELSE <<>>)

\* The dict of _detect_optimizations, as the sequence of its items in
\* insertion order.
DetectOptimizations(code) ==
    (IF DetectFileOperations(code) # <<>>
       THEN <<Opt("file_operations", DetectFileOperations(code))>> ELSE <<>>)
    \o (IF DetectListComprehensions(code) # <<>>
       THEN <<Opt("list_comprehensions", DetectListComprehensions(code))>> ELSE <<>>)
    \o (IF DetectClassDefinitions(code) # <<>>
       THEN <<Opt("class_definitions", DetectClassDefinitions(code))>> ELSE <<>>)
    \o (IF DetectDataStructures(code) # <<>>
       THEN <<Opt("data_structures", DetectDataStructures(code))>> ELSE <<>>)

----------------------------------------------------------------------------
(* Generators.  Each returns the dict of the code, with "raises" naming    *)
(* the exception that leaves the generator instead ("none" otherwise).     *)

Line(t, fn) == [t |-> t, fn |-> fn]

Outcome(optimized_code, memory_saved, explanation, test_code, warnings) ==
    [raises |-> "none", optimized_code |-> optimized_code,
     memory_saved |-> memory_saved, explanation |-> explanation,
     test_code |-> test_code, warnings |-> warnings]

Raised(exc) ==
    [raises |-> exc, optimized_code |-> <<>>, memory_saved |-> 0,
     explanation |-> <<>>, test_code |-> <<>>, warnings |-> <<>>]

\* re.search(r'def\s+(\w+)\s*\(', code): the first "def name(" of the text,
\* "" when there is none
RECURSIVE FirstDefInText(_)
FirstDefInText(code) ==
    IF code = <<>> THEN ""
    ELSE LET c == Head(code)
         IN IF c.k = "def" THEN c.name
            ELSE IF c.k = "class" /\ ClassFuncDefs(c) # <<>> THEN ClassFuncDefs(c)[1].name
            ELSE IF "def read_file(filename)" \in c.mentions THEN "read_file"
            ELSE IF "def process_file_lines(filename)" \in c.mentions
                 THEN "process_file_lines"
            ELSE FirstDefInText(Tail(code))

\* for line in f: [if cond:] yield elt
YieldLoop(elt, cond) == Stmt("yieldloop", "", elt, "line", "f", cond, 1)

FileOpsFunctionName(details, code) ==
    LET named == SelectSeq(details, LAMBDA d : d.function # "")
        found == IF named # <<>> THEN named[1].function
                 ELSE IF Parse(code) = "ok"
                      THEN (IF FunctionDefs(code) # <<>>
                              THEN FunctionDefs(code)[1].name ELSE "")
                      ELSE FirstDefInText(code)
    IN IF found = "" THEN "process_file" ELSE found

OptimizeFileOperations(details, code) ==
    IF /\ \A i \in 1..Len(details) : details[i].function = ""
       /\ Parse(code) = "ValueError"
    THEN Raised("ValueError")
    ELSE
    LET function_name == FileOpsFunctionName(details, code)
        elt == IF function_name = "process_file_lines"
               THEN "line.strip().upper()" ELSE "line.rstrip(NL).upper()"
    IN Outcome(
         << Import("from typing import Generator"),
            Def(function_name, "filename", TRUE,
                "Process file line by line to minimize memory usage.",
                <<YieldLoop(elt, "")>>) >>,
         60,
         <<"Converted file reading to use generators instead of loading entire file into memory.">>,
         << Line("import unittest", ""), Line("import tempfile", ""),
            Line("import os", ""),
            Line("class TestFileOptimization", function_name) >>,
         <<>>)

\* f"{var_name} * 2" and f"{var_name} > 0"
Doubled(v) ==
    [n |-> "n * 2", x |-> "x * 2", line |-> "line * 2", row |-> "row * 2"][v]
Positive(v) ==
    [n |-> "n > 0", x |-> "x > 0", line |-> "line > 0", row |-> "row > 0"][v]

\* The list comprehensions the walk of the functions meets, in order.
CompsInFunctions(code) ==
    Flatten([i \in 1..Len(FunctionDefs(code)) |->
               SelectSeq(FunctionDefs(code)[i].body, LAMBDA st : st.s = "comp")])

\* The names the walk leaves behind: each comprehension overwrites the
\* target, iterable and condition it has, and always the expression.
RECURSIVE ExtractComp(_, _)
ExtractComp(comps, acc) ==
    IF comps = <<>> THEN acc
    ELSE LET c == Head(comps)
         IN ExtractComp(Tail(comps),
              [var |-> IF c.var # "" THEN c.var ELSE acc.var,
               iter |-> IF c.iter # "" THEN c.iter ELSE acc.iter,
               cond |-> IF c.cond # "" THEN Unparse(c.cond) ELSE acc.cond,
               expr |-> Unparse(c.elt)])

OptimizeListComprehensions(details, code) ==
    IF Parse(code) # "ok" THEN Raised(Parse(code))
    ELSE
    LET fns == FunctionDefs(code)
        got == ExtractComp(CompsInFunctions(code),
                           [var |-> "", iter |-> "", cond |-> "", expr |-> ""])
        function_name == IF fns # <<>> THEN fns[Len(fns)].name ELSE "process_data"
        var_name == IF got.var # "" THEN got.var ELSE "n"
        iterable_name == IF got.iter # "" THEN got.iter ELSE "numbers"
        expression == IF got.expr # "" THEN got.expr ELSE Doubled(var_name)
        condition == IF got.cond # "" THEN got.cond ELSE Positive(var_name)
        optimized_code ==
            IF Contains(code, "filtered = [") /\ Contains(code, "squared = [")
            THEN << Import("from typing import Generator, List"),
                    Def("process_data", "data", TRUE,
                        "Process data using generators for memory efficiency.",
                        <<Stmt("yieldchain", "", "square", "x", "data", "x > 0", 2)>>) >>
            ELSE << Import("from typing import Generator"),
                    Def(function_name, iterable_name, FALSE,
                        "Process data using generator expression for memory efficiency.",
                        <<Stmt("genexp", "", expression, var_name, iterable_name,
                               condition, 1)>>) >>
    IN Outcome(
         optimized_code,
         40,
         <<"Converted list comprehension to generator expression for memory efficiency.">>,
         << Line("import unittest", ""),
            Line("class TestGeneratorOptimization", function_name) >>,
         <<"Generator expressions are single-use iterables">>)

OptimizeClassDefinitions(details, code) ==
    LET last == IF details # <<>> THEN details[Len(details)]
                ELSE Detail("", "", "", <<>>)
        class_name == IF last.class_name # "" THEN last.class_name ELSE "Person"
        instance_vars == IF last.instance_vars # <<>> THEN last.instance_vars
                         ELSE <<"name", "age">>
    IN Outcome(
         << Class(class_name, TRUE, instance_vars,
                  MapSeq(instance_vars, Attr), <<>>) >>,
         35,
         <<"Added __slots__ to class definition to reduce memory overhead.">>,
         << Line("import unittest", ""), Line("import sys", ""),
            Line("class TestSlotsOptimization", class_name) >>,
         <<"__slots__ prevents dynamic attribute assignment">>)

OptimizeDataStructures(details, code) ==
    IF Parse(code) # "ok" THEN Raised(Parse(code))
    ELSE
    LET fns == FunctionDefs(code)
        function_name == IF fns # <<>> THEN fns[1].name ELSE "create_numeric_array"
    IN Outcome(
         << Import("import array"),
            Def(function_name, "size", TRUE,
                "Create memory-efficient numeric array.", <<Simple("array")>>) >>,
         50,
         <<"Used array.array instead of list for memory-efficient numeric storage.">>,
         << Line("import unittest", ""),
            Line("class TestDataStructureOptimization", function_name) >>,
         <<>>)

MixedOptimizedCode ==
    << Import("from typing import Generator, List"),
       Class("DataProcessor", TRUE, <<"name", "cache">>,
             <<Attr("name"), Attr("cache")>>,
             << Def("process_file", "filename", TRUE,
                    "Process file line by line to minimize memory usage.",
                    <<YieldLoop("line.rstrip(NL).upper()", "line.strip()")>>),
                Def("process_numbers", "numbers", TRUE,
                    "Process numbers using generator expression instead of list comprehension.",
                    <<Stmt("genexp", "", "n * 2", "n", "numbers", "n > 0", 1)>>) >>) >>

OptimizeMixedCode(details, code) ==
    Outcome(
      MixedOptimizedCode,
      100,
      << "Applied multiple optimizations:", "1. Added __slots__ to class",
         "2. Converted file operations to use generators",
         "3. Converted list comprehensions to generator expressions" >>,
      << Line("import unittest", ""), Line("import tempfile", ""),
         Line("import os", ""), Line("class TestMixedOptimizations", "") >>,
      << "__slots__ prevents dynamic attribute assignment",
         "Generator expressions are single-use iterables" >>)

\* self.optimization_patterns[opt_type](details, code)
OptimizationPatterns(kind, details, code) ==
    CASE kind = "file_operations" -> OptimizeFileOperations(details, code)
      [] kind = "list_comprehensions" -> OptimizeListComprehensions(details, code)
      [] kind = "class_definitions" -> OptimizeClassDefinitions(details, code)
      [] kind = "data_structures" -> OptimizeDataStructures(details, code)
      [] kind = "mixed" -> OptimizeMixedCode(details, code)

\* A line of generated test code that the merge drops.
IsImportLine(l) == l.t \in {"import unittest", "import tempfile", "import os", "import sys"}

\* as CombineTestCodes, with the snippets dropped
CombineTestCodesDropped(test_codes) == <<>>

CombineTestCodes(test_codes) ==
    IF test_codes = <<>> THEN <<>>
    ELSE << Line("import unittest", ""), Line("import tempfile", ""),
            Line("import os", "") >>
         \o Flatten([i \in 1..Len(test_codes) |->
                       SelectSeq(test_codes[i], LAMBDA l : ~IsImportLine(l))])
         \o << Line("if __name__ == '__main__': unittest.main()", "") >>

----------------------------------------------------------------------------
(* CodeAnalyzer.analyze_code.                                              *)

\* analyzer.py 50-56
CheckFileOperations(text) ==
    \E st \in Range(AllStmts(text)) : st.s \in {"read", "readlines"}

\* analyzer.py 58-63
CheckListComprehensions(text) ==
    \E st \in Range(AllStmts(text)) : st.s = "comp"

\* as CheckClasses, with the test for __slots__ left out
CheckClassesAny(text) ==
    \E i \in 1..Len(text) : text[i].k = "class"

\* analyzer.py 65-76
CheckClasses(text) ==
    \E i \in 1..Len(text) : text[i].k = "class" /\ ~text[i].hasSlots

\* The range arguments of the model that are literals of five digits or
\* more (\d{5,}).
LongLiterals == {"1000000"}

\* analyzer.py 78-89: the three patterns searched in the text.  A
\* comprehension of the model is written on one line, so that it matches
\* the third pattern exactly when it has a filter.
CheckLargeDataStructures(text) ==
    \/ \E i \in 1..Len(text) : ".read().split" \in text[i].mentions
    \/ \E st \in Range(AllStmts(text)) : st.s = "listrange" /\ st.elt \in LongLiterals
    \/ \E st \in Range(AllStmts(text)) : st.s = "comp" /\ st.cond # ""

\* The dict analyze_code returns; error is the value of the 'error' key as
\* a sequence of at most one element (empty: the key is absent).
Analysis(files, comps, large, classes, issues, error) ==
    [has_file_operations |-> files, has_list_comprehensions |-> comps,
     has_large_data_structures |-> large, has_classes |-> classes,
     memory_issues |-> issues, error |-> error]

\* analyzer.py 12-48.  st is "returned", or "raised" when an exception
\* other than SyntaxError leaves analyze_code.
AnalyzeCode(text) ==
    CASE Parse(text) = "ok" ->
           [st |-> "returned", text |-> text,
            out |-> Analysis(
              CheckFileOperations(text), CheckListComprehensions(text),
              CheckLargeDataStructures(text), CheckClasses(text),
              (IF CheckFileOperations(text)
                 THEN <<"File loading into memory">> ELSE <<>>)
              \o (IF CheckListComprehensions(text)
                 THEN <<"Memory-intensive list comprehensions">> ELSE <<>>)
              \o (IF CheckClasses(text)
                 THEN <<"Classes without __slots__">> ELSE <<>>)
              \o (IF CheckLargeDataStructures(text)
                 THEN <<"Large data structures in memory">> ELSE <<>>),
              <<>>)]
      [] Parse(text) = "SyntaxError" ->
           [st |-> "returned", text |-> text,
            out |-> Analysis(FALSE, FALSE, FALSE, FALSE, <<>>, <<"Syntax error in code">>)]
      [] OTHER ->
           [st |-> "raised", text |-> text,
            out |-> Analysis(FALSE, FALSE, FALSE, FALSE, <<>>, <<>>)]

\* no call of analyze_code yet, or its result dropped
NoAnalysis ==
    [st |-> "idle", text |-> <<>>,
     out |-> Analysis(FALSE, FALSE, FALSE, FALSE, <<>>, <<>>)]

----------------------------------------------------------------------------
(* The strategies of optimizer.MemoryOptimizer.                            *)

\* for i in range(...): obj = ExpensiveObject(i)
NewLoopStmt == Simple("newloop")
\* the function of test_object_pooling_strategy
DefCreateObjects == Def("create_objects", "", FALSE, "", <<NewLoopStmt>>)

\* return [
\*     x * 2
\*     for x in xs
\*     if x > 0
\* ]
DefDoubleAll ==
    Def("double_all", "xs", FALSE, "", <<MultilineComp("", "x * 2", "x", "xs", "x > 0", 1)>>)

\* The texts handed to apply_optimization.
OptimizerCatalog ==
    { Ws, CommentRead, JunkPlain, BadChar, DefAdd, DefReadFile,
      DefProcessFileLines, DefProcessNumbers, DefFlatten, ClassPerson,
      ClassSlots, ClassConfig, ClassPoint, ClassDataProcessor, DefCreateObjects,
      DefDoubleAll }

OptimizerInputs == SeqsUpTo(OptimizerCatalog, MaxChunks)

\* self.strategies, optimizer.py 13-18: the registered names
Strategies ==
    {"generator_conversion", "slots_addition", "memory_mapping", "object_pooling"}

\* the names a caller passes: the registered ones and some that are not
StrategyNames == Strategies \cup {"invalid_strategy", "generator", ""}

\* The dict a strategy returns.  keys tells which entries it has: changes
\* is absent from the dict of the except branch, error from the others.
\* raises is the exception that leaves the strategy, "none" when it returns.
StrategyResult(raises, success, optimized, keys, changes, error) ==
    [raises |-> raises, success |-> success, optimized_code |-> optimized,
     keys |-> keys, changes |-> changes, error |-> error]

NoStrategyResult == StrategyResult("none", FALSE, <<>>, {}, <<>>, "")

\* return {'success': False, 'optimized_code': code, 'changes': []}
NoChange(c) ==
    StrategyResult("none", FALSE, c, {"success", "optimized_code", "changes"}, <<>>, "")

\* return {'success': True, 'optimized_code': ..., 'changes': [...]}
Changed(optimized, change) ==
    StrategyResult("none", TRUE, optimized,
                   {"success", "optimized_code", "changes"}, <<change>>, "")

\* The exceptions of the model that are subclasses of Exception.
ExceptionClasses == {"SyntaxError", "ValueError"}

\* except Exception as e: return {'success': False, 'optimized_code': code,
\* 'error': str(e)}; any other exception leaves the strategy
ExceptException(exc, c) ==
    IF exc \in ExceptionClasses
    THEN StrategyResult("none", FALSE, c, {"success", "optimized_code", "error"}, <<>>, exc)
    ELSE StrategyResult(exc, FALSE, <<>>, {}, <<>>, "")

\* re.sub of the bracketed "... for ... in ...( if ...)" by the same in
\* parentheses, optimizer.py 50-54.  "." matches no line end, so a
\* comprehension written over several lines is left as it is.
SubGenerators(body) ==
    MapSeq(body, LAMBDA st : IF st.s = "comp" /\ ~st.multiline
                             THEN [st EXCEPT !.s = "genexp"]
                             ELSE st)

SubGeneratorsInChunk(c) ==
    [c EXCEPT !.body = SubGenerators(c.body),
              !.methods = MapSeq(c.methods,
                                 LAMBDA m : [m EXCEPT !.body = SubGenerators(m.body)])]

\* optimizer.py 27-73.  A text with a ListComp node holds "[", "for" and
\* "in", so the test of line 49 passes whenever line 39 did not return.
ApplyGeneratorConversion(c) ==
    IF Parse(c) # "ok" THEN ExceptException(Parse(c), c)
    ELSE IF ~\E st \in Range(AllStmts(c)) : st.s = "comp" THEN NoChange(c)
    ELSE Changed(MapSeq(c, SubGeneratorsInChunk),
                 "Converted list comprehensions to generator expressions")

\* optimizer.py 96-121: class_info, as the positions of the classes without
\* __slots__ whose __init__ assigns some self.<attr>
ClassInfo(c) ==
    { i \in 1..Len(c) : /\ c[i].k = "class"
                        /\ ~c[i].hasSlots
                        /\ ExtractInstanceVars(c[i]) # <<>> }

\* optimizer.py 75-151.  re.sub(rf'class {class_name}[^:]*:', ...) puts the
\* __slots__ line under the header of every class of that name; the classes
\* of one name are alike in the model.
AddSlotsToClasses(c) ==
    IF Parse(c) # "ok" THEN ExceptException(Parse(c), c)
    ELSE IF ClassInfo(c) = {} THEN NoChange(c)
    ELSE Changed([i \in 1..Len(c) |->
                    IF i \in ClassInfo(c)
                    THEN [c[i] EXCEPT !.hasSlots = TRUE,
                                      !.slots = ExtractInstanceVars(c[i])]
                    ELSE c[i]],
                 "Added __slots__ to class definitions")

\* the replacement text of optimizer.py 160-167
MmapTemplate ==
    << Import("mmap"),
       Def("read_large_file", "filename", FALSE,
           "Read file using memory-mapped file for efficiency.", <<Simple("mmap")>>) >>

\* optimizer.py 153-179: the pattern "with open(...) as f:", then
\* "<name> = f.read()" on the next line, searched in the text unparsed
ApplyMemoryMapping(c) ==
    IF \E st \in Range(AllStmts(c)) : st.s = "read"
    THEN Changed(MmapTemplate, "Applied memory mapping for file operations")
    ELSE NoChange(c)

\* the text of optimizer.py 188-209: a comment, class ObjectPool, comments
PoolTemplate ==
    << Comment({}),
       Class("ObjectPool", FALSE, <<>>,
             <<Attr("factory"), Attr("pool"), Attr("max_size")>>,
             << Def("acquire", "", FALSE, "", <<PlainStmt>>),
                Def("release", "obj", FALSE, "", <<PlainStmt>>) >>),
       Comment({}) >>

\* optimizer.py 181-222: the pattern "for ... in ...:", then
\* "... = <name>(...)" on the next line, searched in the text unparsed
ImplementObjectPooling(c) ==
    IF \E st \in Range(AllStmts(c)) : st.s = "newloop"
    THEN Changed(c \o PoolTemplate, "Added object pooling implementation")
    ELSE NoChange(c)

\* self.strategies[strategy](code), optimizer.py 25
RunStrategy(strategy, c) ==
    CASE strategy = "generator_conversion" -> ApplyGeneratorConversion(c)
      [] strategy = "slots_addition" -> AddSlotsToClasses(c)
      [] strategy = "memory_mapping" -> ApplyMemoryMapping(c)
      [] strategy = "object_pooling" -> ImplementObjectPooling(c)
      [] OTHER -> StrategyResult("KeyError", FALSE, <<>>, {}, <<>>, "")

\* as StrategyKnown, with every name taken for a registered one
StrategyKnownAlways(strategy) == TRUE

\* strategy in self.strategies, optimizer.py 22
StrategyKnown(strategy) == strategy \in Strategies

\* no call of apply_optimization yet, or its outcome dropped
NoApply ==
    [st |-> "idle", code |-> <<>>, strategy |-> "", ran |-> <<>>,
     out |-> NoStrategyResult, exc |-> "none"]

----------------------------------------------------------------------------
(* The files of a directory and backup.BackupManager.                      *)

\* Longest run of file operations on one directory.
MaxOps == 4

\* A path of the directory, by the parts of its name:
\*   kind "py"   : <stem>.py
\*   kind "bak"  : <stem>.<stamp>.bak.py, stamp the second of its creation
\*   kind "test" : test_<stem>.py
Path(stem, kind, stamp) == [stem |-> stem, kind |-> kind, stamp |-> stamp]

SourcePath(stem) == Path(stem, "py", 0)

\* The files a caller works on: test.py and test.v2.py.
Stems == {"test", "test.v2"}

\* What the caller writes into them.
FileTexts == { <<DefAdd>>, <<ClassPerson>> }

\* A file: its text and its modification time.
File(content, mtime) == [content |-> content, mtime |-> mtime]

\* the directory after a write of content to path p at instant t
WriteFile(d, p, content, t) ==
    [q \in DOMAIN d \cup {p} |-> IF q = p THEN File(content, t) ELSE d[q]]

\* shutil.copy2(src, dst): the content and the modification time of src
CopyFile(d, src, dst) ==
    [q \in DOMAIN d \cup {dst} |-> IF q = dst THEN d[src] ELSE d[q]]

\* as Restore, with the two paths of the copy exchanged
RestoreBackwards(d, original, backup) == CopyFile(d, original, backup)

\* backup.py 35: shutil.copy2(backup_path, original_path)
Restore(d, original, backup) == CopyFile(d, backup, original)

\* backup.py 19-20, 27: f"{file_path.stem}.{timestamp}.bak.py" beside the
\* file, the timestamp to the second
BackupPath(stem, now) == Path(stem, "bak", now)

\* fnmatch of the name <stem>.<stamp>.bak.py against f"{wanted}.*.bak.py",
\* over the stems of the model: the "*" takes in ".v2" as well
MatchesPattern(wanted, stem) ==
    \/ stem = wanted
    \/ wanted = "test" /\ stem = "test.v2"

\* backup.py 39-43: search_dir.glob(pattern)
GlobBackups(d, stem) ==
    { p \in DOMAIN d : p.kind = "bak" /\ MatchesPattern(stem, p.stem) }

\* backup.py 45-49: None (the empty sequence) or max(backups, key=st_mtime).
\* Among backups of equal st_mtime max returns the first of the list, and
\* glob lists in the order of the directory, which is any order: every
\* one of them can be the result.
FindLatestBackup(d, stem) ==
    IF GlobBackups(d, stem) = {} THEN { <<>> }
    ELSE { <<p>> : p \in { q \in GlobBackups(d, stem) :
                              \A r \in GlobBackups(d, stem) : d[r].mtime <= d[q].mtime } }

\* One operation on the directory, as the log keeps it: the file it was
\* called on, the path it was given, the text written, the path returned.
Op(op, stem, arg, text, ret) ==
    [op |-> op, stem |-> stem, arg |-> arg, text |-> text, ret |-> ret]

\* the directory as a test finds it: test.py and test.v2.py
NewDirectory == [p \in {SourcePath(stem) : stem \in Stems} |-> File(<<DefAdd>>, 0)]

----------------------------------------------------------------------------
(* cli.main and cli.MemoryOptimizerCLI.                                    *)

\* What the files hold when the tool is run: nothing to optimize, a file
\* reader, a class without __slots__, the two together, a syntax error,
\* bytes that are not UTF-8.
CliTexts == { <<DefAdd>>, <<DefReadFile>>, <<ClassPerson>>, <<DefReadFile, ClassPerson>>,
              <<JunkPlain>>, <<BadChar>> }

\* utils.py 160-161: test_<stem>.py beside the file
TestPath(stem) == Path(stem, "test", 0)

\* The command line, cli.py 103-113: the path is a file (<stem>.py) or the
\* directory.
Args(directory, stem, dry_run, no_backup, no_tests, run_tests) ==
    [directory |-> directory, stem |-> stem, dry_run |-> dry_run,
     no_backup |-> no_backup, no_tests |-> no_tests, run_tests |-> run_tests]

\* cli.py 126-134: a file is optimized with create_tests = not no_tests;
\* optimize_directory passes no create_tests, which then is True
CreateTests(args) == args.directory \/ ~args.no_tests

\* cli.py 47-49: "if not dry_run"; args.no_backup is read nowhere
MakesBackup(args) == ~args.dry_run

\* as WritesFile, with the comparison of the texts left out
WritesFileAlways(args, original_code, result) == ~args.dry_run

\* cli.py 60: "if not dry_run and result.optimized_code != original_code"
WritesFile(args, original_code, result) ==
    ~args.dry_run /\ result.optimized_code # original_code

\* cli.py 65-73 and 90-95: what optimize_file returns for a file, or the
\* entry optimize_directory makes for a file that raised
FileResult(stem, changes_made, test_file, error) ==
    [stem |-> stem, changes_made |-> changes_made, test_file |-> test_file,
     error |-> error]

\* One thing the run did to the directory.
Effect(op, stem, path) == [op |-> op, stem |-> stem, path |-> path]

\* the orders in which rglob can list the files of the directory
Listings == { q \in [1..Cardinality(Stems) -> Stems] :
                \A i, j \in DOMAIN q : q[i] = q[j] => i = j }


----------------------------------------------------------------------------
(* optimize_code, step by step.                                            *)

VARIABLES
    code,                \* the argument of the running (or last) call
    pc,                  \* "idle" | "entry" | "try" | "detect" | "loop" | "done" | "raised"
    optimizations,       \* the detected kinds with their details, in dict order
    idx,                 \* position of the for loop in optimizations
    optimized_code,      \* locals of optimize_code
    total_memory_saved,
    explanations,
    warnings,
    test_codes,
    result,              \* the OptimizationResult returned, when pc = "done"
    calls,               \* the parser, detector and generator calls of this run
    fed,                 \* the argument is the optimized_code of the previous call
    self,                \* the agent instance the call runs on
    optimization_patterns,  \* self.optimization_patterns of each instance: its keys
    repeated,            \* the call repeats the input of the call before it
    previous,            \* what the call before returned, when repeated
    analysis,            \* the last call of CodeAnalyzer.analyze_code
    optimizer,           \* the running (or last) call of MemoryOptimizer.apply_optimization:
                         \*   st  : "idle" | "called" | "running" | "returned" | "raised"
                         \*   ran : the strategies run so far
                         \*   out : the dict returned, exc : the exception raised
    disk,                \* the directory: path -> File
    second,              \* datetime.now(), to the second
    instant,             \* the time of the last write
    log,                 \* the file operations so far
    cli                  \* the running (or last) run of cli.main:
                         \*   pc : "idle" | "main" | "read" | "backup" | "optimize"
                         \*        | "tests" | "update" | "summary" | "done" | "raised"
                         \*   queue : the files still to optimize, stem : the one at hand
                         \*   results : the list main prints its summary from
                         \*   before : the directory when the run began
                         \*   made : what the run did to the directory

\* the variables of the agent
agent == << code, pc, optimizations, idx, optimized_code, total_memory_saved,
            explanations, warnings, test_codes, result, calls, fed,
            self, optimization_patterns, repeated, previous >>

\* the variables of the other components, which no step of the agent touches
files == << disk, second, instant, log >>

elsewhere == << analysis, optimizer, files, cli >>

vars == << agent, elsewhere >>

\* what tells one call from another, beside its argument
caller == << self, repeated, previous >>

locals == << optimizations, idx, optimized_code, total_memory_saved,
             explanations, warnings, test_codes >>

OptimizationResult(original_code, optimized, test_code, memory_saved, explanation, warns) ==
    [original_code |-> original_code, optimized_code |-> optimized,
     test_code |-> test_code, memory_saved |-> memory_saved,
     explanation |-> explanation, warnings |-> warns]

NoResult == OptimizationResult(<<>>, <<>>, <<>>, 0, <<>>, <<>>)

\* no run of the tool yet, or its outcome dropped
NoCli ==
    [pc |-> "idle", args |-> Args(FALSE, "", FALSE, FALSE, FALSE, FALSE),
     queue |-> <<>>, stem |-> "", original_code |-> <<>>, result |-> NoResult,
     test_file |-> <<>>, results |-> <<>>, exc |-> "none",
     before |-> NewDirectory, made |-> <<>>]

CallRecord(op, text, out) == [op |-> op, text |-> text, out |-> out]

GeneratorKinds ==
    {"file_operations", "list_comprehensions", "class_definitions",
     "data_structures", "mixed"}

\* The agent instances of the program.
Agents == {"a1", "a2"}
FirstAgent == "a1"

\* agent.py 133-141: except SyntaxError
SyntaxErrorResult(c) ==
    OptimizationResult(c, c, <<>>, 0, <<"Syntax error in input code">>,
                       <<"Could not parse code">>)

FromOutcome(c, r) ==
    OptimizationResult(c, r.optimized_code, r.test_code, r.memory_saved,
                       r.explanation, r.warnings)

Init ==
    /\ code = <<>>
    /\ pc = "idle"
    /\ optimizations = <<>>
    /\ idx = 1
    /\ optimized_code = <<>>
    /\ total_memory_saved = 0
    /\ explanations = <<>>
    /\ warnings = <<>>
    /\ test_codes = <<>>
    /\ result = NoResult
    /\ calls = <<>>
    /\ fed = FALSE
    /\ self = FirstAgent
    /\ optimization_patterns = [a \in Agents |-> GeneratorKinds]
    /\ repeated = FALSE
    /\ previous = NoResult
    /\ analysis = NoAnalysis
    /\ optimizer = NoApply
    /\ disk = NewDirectory
    /\ second = 0
    /\ instant = 0
    /\ log = <<>>
    /\ cli = NoCli

Enter(c, isFed) ==
    /\ code' = c
    /\ pc' = "entry"
    /\ optimizations' = <<>>
    /\ idx' = 1
    /\ optimized_code' = <<>>
    /\ total_memory_saved' = 0
    /\ explanations' = <<>>
    /\ warnings' = <<>>
    /\ test_codes' = <<>>
    /\ result' = NoResult
    /\ calls' = <<>>
    /\ fed' = isFed

\* a caller calls optimize_code(c)
Call(c) ==
    /\ pc = "idle"
    /\ Enter(c, FALSE)
    /\ UNCHANGED << caller, optimization_patterns, elsewhere >>

\* a caller calls optimize_code(c) on the instance a
CallOn(a, c) ==
    /\ pc = "idle"
    /\ Enter(c, FALSE)
    /\ self' = a
    /\ repeated' = FALSE
    /\ previous' = NoResult
    /\ UNCHANGED << optimization_patterns, elsewhere >>

\* a caller that holds the result of a call calls optimize_code on the same
\* argument once more, on the instance a
CallAgain(a) ==
    /\ pc = "done"
    /\ ~repeated
    /\ Enter(code, fed)
    /\ self' = a
    /\ repeated' = TRUE
    /\ previous' = result
    /\ UNCHANGED << optimization_patterns, elsewhere >>

\* the call is over (returned or raised): its locals are gone, and the agent
\* keeps nothing of it
Discard ==
    /\ pc \in {"done", "raised"}
    /\ code' = <<>>
    /\ pc' = "idle"
    /\ optimizations' = <<>>
    /\ idx' = 1
    /\ optimized_code' = <<>>
    /\ total_memory_saved' = 0
    /\ explanations' = <<>>
    /\ warnings' = <<>>
    /\ test_codes' = <<>>
    /\ result' = NoResult
    /\ calls' = <<>>
    /\ fed' = FALSE
    /\ self' = FirstAgent
    /\ repeated' = FALSE
    /\ previous' = NoResult
    /\ UNCHANGED << optimization_patterns, elsewhere >>

\* a caller runs optimize_code again on the text the last call returned
Reoptimize ==
    /\ pc = "done"
    /\ Enter(result.optimized_code, TRUE)
    /\ repeated' = FALSE
    /\ previous' = NoResult
    /\ UNCHANGED << self, optimization_patterns, elsewhere >>

Return(r) ==
    /\ result' = r
    /\ pc' = "done"

\* agent.py 40-48
CheckEmpty ==
    /\ pc = "entry"
    /\ IF IsBlank(code)
       THEN Return(OptimizationResult(code, code, <<>>, 0,
                                      <<"No code to optimize.">>, <<>>))
       ELSE pc' = "try" /\ UNCHANGED result
    /\ UNCHANGED << code, locals, calls, fed, caller, optimization_patterns, elsewhere >>

MixedSignature(c) ==
    /\ Contains(c, "class DataProcessor")
    /\ Contains(c, "process_file")
    /\ Contains(c, "process_numbers")

\* as FileSignature, with the ".readlines()" alternative forgotten
FileSignatureReadOnly(c) ==
    /\ Contains(c, "def read_file(filename)") \/ Contains(c, "def process_file_lines(filename)")
    /\ Contains(c, "with open(")
    /\ Contains(c, ".read()")

\* agent.py 64-66
FileSignature(c) ==
    /\ Contains(c, "def read_file(filename)") \/ Contains(c, "def process_file_lines(filename)")
    /\ Contains(c, "with open(")
    /\ Contains(c, ".read()") \/ Contains(c, ".readlines()")

\* agent.py 52-61
MixedShortcut ==
    /\ pc = "try"
    /\ MixedSignature(code)
    /\ LET r == OptimizeMixedCode(<<>>, code)
       IN /\ calls' = Append(calls, CallRecord("mixed", code, r))
          /\ Return(FromOutcome(code, r))
    /\ UNCHANGED << code, locals, fed, caller, optimization_patterns, elsewhere >>

\* agent.py 64-88
FileShortcut ==
    /\ pc = "try"
    /\ ~MixedSignature(code)
    /\ FileSignature(code)
    /\ LET fn == IF Contains(code, "def read_file(filename)")
                 THEN "read_file" ELSE "process_file_lines"
           r == OptimizeFileOperations(<<Detail("file_read", fn, "", <<>>)>>, code)
       IN /\ calls' = Append(calls, CallRecord("file_operations", code, r))
          /\ Return(FromOutcome(code, r))
    /\ UNCHANGED << code, locals, fed, caller, optimization_patterns, elsewhere >>

\* agent.py 90, and 133-141 when the parser raises SyntaxError; any other
\* exception leaves optimize_code
ParseCode ==
    /\ pc = "try"
    /\ ~MixedSignature(code)
    /\ ~FileSignature(code)
    /\ calls' = Append(calls, CallRecord("parse", code, Raised(Parse(code))))
    /\ CASE Parse(code) = "ok" -> pc' = "detect" /\ UNCHANGED result
         [] Parse(code) = "SyntaxError" -> Return(SyntaxErrorResult(code))
         [] OTHER -> pc' = "raised" /\ UNCHANGED result
    /\ UNCHANGED << code, locals, fed, caller, optimization_patterns, elsewhere >>

\* agent.py 93-110
Detect ==
    /\ pc = "detect"
    /\ optimizations' = DetectOptimizations(code)
    /\ calls' = Append(calls, CallRecord("detect", code, Raised("none")))
    /\ IF optimizations' = <<>>
       THEN /\ Return(OptimizationResult(code, code, <<>>, 0,
                        <<"No optimization opportunities found.">>, <<>>))
            /\ UNCHANGED optimized_code
       ELSE /\ pc' = "loop"
            /\ optimized_code' = code
            /\ UNCHANGED result
    /\ idx' = 1
    /\ total_memory_saved' = 0
    /\ explanations' = <<>>
    /\ warnings' = <<>>
    /\ test_codes' = <<>>
    /\ UNCHANGED << code, fed, caller, optimization_patterns, elsewhere >>

\* as PatternLookup, with the generator taken out of the dict by pop()
PatternLookupPop(registry, kind) ==
    [found |-> kind \in registry, after |-> registry \ {kind}]

\* self.optimization_patterns[opt_type]: whether the key is there (KeyError
\* otherwise), and the keys of the dict after the lookup
PatternLookup(registry, kind) ==
    [found |-> kind \in registry, after |-> registry]

\* agent.py 112-119: one iteration of the loop; a SyntaxError raised by the
\* generator is caught at 133, any other exception leaves optimize_code
ApplyOptimization ==
    /\ pc = "loop"
    /\ idx <= Len(optimizations)
    /\ LET opt == optimizations[idx]
           look == PatternLookup(optimization_patterns[self], opt.kind)
           r == IF look.found
                THEN OptimizationPatterns(opt.kind, opt.details, optimized_code)
                ELSE Raised("KeyError")
       IN /\ optimization_patterns' = [optimization_patterns EXCEPT ![self] = look.after]
          /\ calls' = Append(calls, CallRecord(opt.kind, optimized_code, r))
          /\ CASE r.raises = "none" ->
                    /\ optimized_code' = r.optimized_code
                    /\ total_memory_saved' = total_memory_saved + r.memory_saved
                    /\ explanations' = explanations \o r.explanation
                    /\ warnings' = warnings \o r.warnings
                    /\ test_codes' = IF r.test_code # <<>>
                                     THEN Append(test_codes, r.test_code)
                                     ELSE test_codes
                    /\ idx' = idx + 1
                    /\ UNCHANGED << pc, result >>
               [] r.raises = "SyntaxError" ->
                    /\ Return(SyntaxErrorResult(code))
                    /\ UNCHANGED << optimized_code, total_memory_saved,
                                    explanations, warnings, test_codes, idx >>
               [] OTHER ->
                    /\ pc' = "raised"
                    /\ UNCHANGED << result, optimized_code, total_memory_saved,
                                    explanations, warnings, test_codes, idx >>
    /\ UNCHANGED << code, optimizations, fed, caller, elsewhere >>

\* agent.py 122-131
Finish ==
    /\ pc = "loop"
    /\ idx > Len(optimizations)
    /\ Return(OptimizationResult(code, optimized_code,
                                 CombineTestCodes(test_codes),
                                 total_memory_saved, explanations, warnings))
    /\ UNCHANGED << code, locals, calls, fed, caller, optimization_patterns, elsewhere >>

\* agent.py 113-119: the locals after the generator returned r, or the
\* exception it raised
ApplyOne(acc, r) ==
    IF r.raises # "none" THEN [acc EXCEPT !.raises = r.raises]
    ELSE [raises |-> "none",
          optimized_code |-> r.optimized_code,
          memory_saved |-> acc.memory_saved + r.memory_saved,
          explanation |-> acc.explanation \o r.explanation,
          warnings |-> acc.warnings \o r.warnings,
          test_codes |-> IF r.test_code # <<>>
                         THEN Append(acc.test_codes, r.test_code)
                         ELSE acc.test_codes]

\* agent.py 106-119 as one run of the loop over the detected kinds, from
\* the locals acc: it stops at the first generator that raises
RECURSIVE ApplyAll(_, _)
ApplyAll(opts, acc) ==
    IF opts = <<>> \/ acc.raises # "none" THEN acc
    ELSE ApplyAll(Tail(opts),
                  ApplyOne(acc, OptimizationPatterns(Head(opts).kind, Head(opts).details,
                                                     acc.optimized_code)))

\* what a call ends with: the result returned, or the exception raised
Returned(r) == [raises |-> "none", result |-> r]
Thrown(exc) == [raises |-> exc, result |-> NoResult]

\* agent.py 121-139: the result made of the locals after the loop, or what
\* the exception that ended the loop leads to
FromLocals(c, acc) ==
    IF acc.raises = "none"
    THEN Returned(OptimizationResult(c, acc.optimized_code,
                    CombineTestCodes(acc.test_codes), acc.memory_saved,
                    acc.explanation, acc.warnings))
    ELSE IF acc.raises = "SyntaxError" THEN Returned(SyntaxErrorResult(c))
    ELSE Thrown(acc.raises)

\* agent.py 38-141, optimize_code from call to return, for the callers
\* that use it as one step
OptimizeCode(c) ==
    IF IsBlank(c)
    THEN Returned(OptimizationResult(c, c, <<>>, 0, <<"No code to optimize.">>, <<>>))
    ELSE IF MixedSignature(c)
    THEN Returned(FromOutcome(c, OptimizeMixedCode(<<>>, c)))
    ELSE IF FileSignature(c)
    THEN Returned(FromOutcome(c, OptimizeFileOperations(
             <<Detail("file_read",
                      IF Contains(c, "def read_file(filename)")
                      THEN "read_file" ELSE "process_file_lines", "", <<>>)>>, c)))
    ELSE IF Parse(c) = "SyntaxError" THEN Returned(SyntaxErrorResult(c))
    ELSE IF Parse(c) # "ok" THEN Thrown(Parse(c))
    ELSE IF DetectOptimizations(c) = <<>>
    THEN Returned(OptimizationResult(c, c, <<>>, 0,
                    <<"No optimization opportunities found.">>, <<>>))
    ELSE FromLocals(c, ApplyAll(DetectOptimizations(c),
                                [raises |-> "none", optimized_code |-> c,
                                 memory_saved |-> 0, explanation |-> <<>>,
                                 warnings |-> <<>>, test_codes |-> <<>>]))

Next ==
    \/ \E c \in Inputs : Call(c)
    \/ Reoptimize
    \/ Discard
    \/ CheckEmpty
    \/ MixedShortcut
    \/ FileShortcut
    \/ ParseCode
    \/ Detect
    \/ ApplyOptimization
    \/ Finish

Spec == Init /\ [][Next]_vars

\* The texts of the calls that are made twice.
RepeatInputs == SeqsUpTo(Catalog, MaxChunks - 1)

\* Callers that call optimize_code on either instance, and again on the
\* argument of the call that just returned.
NextTwoCalls ==
    \/ \E a \in Agents : \E c \in RepeatInputs : CallOn(a, c)
    \/ \E a \in Agents : CallAgain(a)
    \/ Reoptimize
    \/ Discard
    \/ CheckEmpty
    \/ MixedShortcut
    \/ FileShortcut
    \/ ParseCode
    \/ Detect
    \/ ApplyOptimization
    \/ Finish

SpecTwoCalls == Init /\ [][NextTwoCalls]_vars

\* a caller calls analyze_code(c)
Analyze(c) ==
    /\ analysis.st = "idle"
    /\ analysis' = AnalyzeCode(c)
    /\ UNCHANGED << agent, optimizer, files, cli >>

\* the caller drops what analyze_code returned
DropAnalysis ==
    /\ analysis.st # "idle"
    /\ analysis' = NoAnalysis
    /\ UNCHANGED << agent, optimizer, files, cli >>

NextAnalyzer ==
    \/ \E c \in Inputs : Analyze(c)
    \/ DropAnalysis

SpecAnalyzer == Init /\ [][NextAnalyzer]_vars

\* a caller calls apply_optimization(c, strategy)
CallApply(c, strategy) ==
    /\ optimizer.st = "idle"
    /\ optimizer' = [NoApply EXCEPT !.st = "called", !.code = c, !.strategy = strategy]
    /\ UNCHANGED << agent, analysis, files, cli >>

\* optimizer.py 22-23
CheckStrategy ==
    /\ optimizer.st = "called"
    /\ optimizer' = IF StrategyKnown(optimizer.strategy)
                    THEN [optimizer EXCEPT !.st = "running"]
                    ELSE [optimizer EXCEPT !.st = "raised", !.exc = "ValueError"]
    /\ UNCHANGED << agent, analysis, files, cli >>

\* optimizer.py 25
Dispatch ==
    /\ optimizer.st = "running"
    /\ LET r == RunStrategy(optimizer.strategy, optimizer.code)
       IN optimizer' =
            IF r.raises = "none"
            THEN [optimizer EXCEPT !.st = "returned", !.out = r,
                                   !.ran = Append(@, optimizer.strategy)]
            ELSE [optimizer EXCEPT !.st = "raised", !.exc = r.raises,
                                   !.ran = IF optimizer.strategy \in Strategies
                                           THEN Append(@, optimizer.strategy) ELSE @]
    /\ UNCHANGED << agent, analysis, files, cli >>

\* the caller drops what apply_optimization returned or raised
DropOutcome ==
    /\ optimizer.st \in {"returned", "raised"}
    /\ optimizer' = NoApply
    /\ UNCHANGED << agent, analysis, files, cli >>

NextOptimizer ==
    \/ \E c \in OptimizerInputs : \E strategy \in StrategyNames : CallApply(c, strategy)
    \/ CheckStrategy
    \/ Dispatch
    \/ DropOutcome

SpecOptimizer == Init /\ [][NextOptimizer]_vars

\* the clock passes a second
Tick ==
    /\ Len(log) < MaxOps
    /\ second' = second + 1
    /\ log' = Append(log, Op("tick", "", <<>>, <<>>, <<>>))
    /\ UNCHANGED << agent, analysis, optimizer, cli, disk, instant >>

\* the caller writes a text into <stem>.py
Modify(stem, text) ==
    /\ Len(log) < MaxOps
    /\ instant' = instant + 1
    /\ disk' = WriteFile(disk, SourcePath(stem), text, instant')
    /\ log' = Append(log, Op("write", stem, <<>>, text, <<>>))
    /\ UNCHANGED << agent, analysis, optimizer, cli, second >>

\* backup.py 16-31: create_backup(<stem>.py)
CreateBackup(stem) ==
    /\ Len(log) < MaxOps
    /\ disk' = CopyFile(disk, SourcePath(stem), BackupPath(stem, second))
    /\ log' = Append(log, Op("create_backup", stem, <<>>, disk[SourcePath(stem)].content,
                             <<BackupPath(stem, second)>>))
    /\ UNCHANGED << agent, analysis, optimizer, cli, second, instant >>

\* backup.py 33-35: restore_backup(<stem>.py, b)
RestoreBackup(stem, b) ==
    /\ Len(log) < MaxOps
    /\ b \in DOMAIN disk
    /\ b.kind = "bak"
    /\ disk' = Restore(disk, SourcePath(stem), b)
    /\ log' = Append(log, Op("restore_backup", stem, <<b>>, <<>>, <<>>))
    /\ UNCHANGED << agent, analysis, optimizer, cli, second, instant >>

\* backup.py 37-49: find_latest_backup(<stem>.py)
FindLatest(stem) ==
    /\ Len(log) < MaxOps
    /\ \E ret \in FindLatestBackup(disk, stem) :
          log' = Append(log, Op("find_latest_backup", stem, <<>>, <<>>, ret))
    /\ UNCHANGED << agent, analysis, optimizer, cli, disk, second, instant >>

NextBackup ==
    \/ Tick
    \/ \E stem \in Stems : \E text \in FileTexts : Modify(stem, text)
    \/ \E stem \in Stems : CreateBackup(stem)
    \/ \E stem \in Stems : \E b \in DOMAIN disk : RestoreBackup(stem, b)
    \/ \E stem \in Stems : FindLatest(stem)

SpecBackup == Init /\ [][NextBackup]_vars

others == << agent, analysis, optimizer, second, log >>

\* the test writes a text into <stem>.py of the new directory
Prepare(stem, text) ==
    /\ cli.pc = "idle"
    /\ disk[SourcePath(stem)].content # text
    /\ disk' = [disk EXCEPT ![SourcePath(stem)] = File(text, 0)]
    /\ UNCHANGED << others, instant, cli >>

\* cli.py 99-134: the tool is run on <stem>.py or on the directory
Main(args) ==
    /\ cli.pc = "idle"
    /\ \E q \in (IF args.directory THEN Listings ELSE { <<args.stem>> }) :
          cli' = [NoCli EXCEPT !.pc = "main", !.args = args, !.queue = q,
                               !.before = disk]
    /\ UNCHANGED << others, disk, instant >>

\* cli.py 85-100 (or 127): the next file, or the summary after the last
NextFile ==
    /\ cli.pc = "main"
    /\ cli' = IF cli.queue = <<>>
              THEN [cli EXCEPT !.pc = "summary"]
              ELSE [cli EXCEPT !.pc = "read", !.stem = Head(cli.queue),
                               !.queue = Tail(cli.queue), !.original_code = <<>>,
                               !.result = NoResult, !.test_file = <<>>]
    /\ UNCHANGED << others, disk, instant >>

\* an exception leaves optimize_file: optimize_directory catches it and
\* goes on (cli.py 92-98), main on a file does not (127)
Failed(exc) ==
    IF cli.args.directory
    THEN [cli EXCEPT !.pc = "main",
                     !.results = Append(@, FileResult(cli.stem, FALSE, <<>>, exc))]
    ELSE [cli EXCEPT !.pc = "raised", !.exc = exc]

\* cli.py 37-45
ReadOriginal ==
    /\ cli.pc = "read"
    /\ LET text == disk[SourcePath(cli.stem)].content
       IN cli' = IF \E i \in 1..Len(text) : text[i].k = "badchar"
                 THEN Failed("UnicodeDecodeError")
                 ELSE [cli EXCEPT !.pc = "backup", !.original_code = text]
    /\ UNCHANGED << others, disk, instant >>

\* cli.py 47-49: no backup in a dry run
SkipBackup ==
    /\ cli.pc = "backup"
    /\ ~MakesBackup(cli.args)
    /\ cli' = [cli EXCEPT !.pc = "optimize"]
    /\ UNCHANGED << others, disk, instant >>

\* cli.py 47-49 and backup.py 16-31
MakeBackup ==
    /\ cli.pc = "backup"
    /\ MakesBackup(cli.args)
    /\ disk' = CopyFile(disk, SourcePath(cli.stem), BackupPath(cli.stem, second))
    /\ cli' = [cli EXCEPT !.pc = "optimize",
                          !.made = Append(@, Effect("backup", cli.stem,
                                                    BackupPath(cli.stem, second)))]
    /\ UNCHANGED << others, instant >>

\* shutil.copy2 raises (no space, no permission): create_backup raises
BackupFails ==
    /\ cli.pc = "backup"
    /\ MakesBackup(cli.args)
    /\ cli' = [Failed("OSError") EXCEPT
                 !.made = Append(@, Effect("no backup", cli.stem, SourcePath(cli.stem)))]
    /\ UNCHANGED << others, disk, instant >>

\* cli.py 51-53
AnalyzeAndOptimize ==
    /\ cli.pc = "optimize"
    /\ \E a \in {AnalyzeCode(cli.original_code)} :
       \E r \in {OptimizeCode(cli.original_code)} :
          cli' = IF a.st = "raised" THEN Failed(Parse(cli.original_code))
                 ELSE IF r.raises # "none" THEN Failed(r.raises)
                 ELSE [cli EXCEPT !.pc = "tests", !.result = r.result]
    /\ UNCHANGED << others, disk, instant >>

\* cli.py 55-58 and utils.py 155-169: the test file is written whenever
\* there is test code and create_tests is set
WriteTests ==
    /\ cli.pc = "tests"
    /\ IF CreateTests(cli.args) /\ cli.result.test_code # <<>>
       THEN /\ instant' = instant + 1
            /\ disk' = WriteFile(disk, TestPath(cli.stem), cli.result.test_code, instant')
            /\ cli' = [cli EXCEPT !.pc = "update", !.test_file = <<TestPath(cli.stem)>>,
                                  !.made = Append(@, Effect("test file", cli.stem,
                                                            TestPath(cli.stem)))]
       ELSE /\ cli' = [cli EXCEPT !.pc = "update"]
            /\ UNCHANGED << disk, instant >>
    /\ UNCHANGED others

\* utils.py 167-169: the write raises, create_test_file logs it and
\* returns None
WriteTestsFails ==
    /\ cli.pc = "tests"
    /\ CreateTests(cli.args) /\ cli.result.test_code # <<>>
    /\ cli' = [cli EXCEPT !.pc = "update"]
    /\ UNCHANGED << others, disk, instant >>

\* cli.py 60-73
UpdateFile ==
    /\ cli.pc = "update"
    /\ IF WritesFile(cli.args, cli.original_code, cli.result)
       THEN /\ instant' = instant + 1
            /\ disk' = WriteFile(disk, SourcePath(cli.stem),
                                 cli.result.optimized_code, instant')
            /\ cli' = [cli EXCEPT
                          !.pc = "main",
                          !.made = Append(@, Effect("write", cli.stem, SourcePath(cli.stem))),
                          !.results = Append(@, FileResult(cli.stem, TRUE,
                                                           cli.test_file, "none"))]
       ELSE /\ cli' = [cli EXCEPT
                          !.pc = "main",
                          !.results = Append(@, FileResult(
                              cli.stem, cli.result.optimized_code # cli.original_code,
                              cli.test_file, "none"))]
            /\ UNCHANGED << disk, instant >>
    /\ UNCHANGED others

\* the test files run_tests writes back (utils.py 92-115): those of the
\* results that name one
TestFilesOf(results) ==
    { results[i].test_file[1] : i \in { j \in 1..Len(results) : results[j].test_file # <<>> } }

HasTestFile(r) == r.test_file # <<>>

Rewritten(results) ==
    LET sel == SelectSeq(results, HasTestFile)
    IN [i \in 1..Len(sel) |-> Effect("test file rewritten", sel[i].stem, sel[i].test_file[1])]

\* cli.py 136-178: the summary, and run_tests when asked for and some file
\* was optimized; every test file is read and written back
Summary ==
    /\ cli.pc = "summary"
    /\ IF /\ cli.args.run_tests
          /\ \E i \in 1..Len(cli.results) : cli.results[i].changes_made
          /\ TestFilesOf(cli.results) # {}
       THEN /\ instant' = instant + 1
            /\ disk' = [p \in DOMAIN disk |->
                          IF p \in TestFilesOf(cli.results)
                          THEN File(disk[p].content, instant') ELSE disk[p]]
            /\ cli' = [cli EXCEPT
                          !.pc = "done",
                          !.made = @ \o Rewritten(cli.results)]
       ELSE /\ cli' = [cli EXCEPT !.pc = "done"]
            /\ UNCHANGED << disk, instant >>
    /\ UNCHANGED others

\* the run is over; the test removes the directory and makes a new one
DropRun ==
    /\ cli.pc \in {"done", "raised"}
    /\ cli' = NoCli
    /\ disk' = NewDirectory
    /\ instant' = 0
    /\ UNCHANGED others

Flags == {TRUE, FALSE}

NextCli ==
    \/ \E stem \in Stems : \E text \in CliTexts : Prepare(stem, text)
    \/ \E directory, dry_run, no_backup, no_tests, run_tests \in Flags :
          \E stem \in Stems :
             Main(Args(directory, stem, dry_run, no_backup, no_tests, run_tests))
    \/ NextFile
    \/ ReadOriginal
    \/ SkipBackup
    \/ MakeBackup
    \/ BackupFails
    \/ AnalyzeAndOptimize
    \/ WriteTests
    \/ WriteTestsFails
    \/ UpdateFile
    \/ Summary
    \/ DropRun

SpecCli == Init /\ [][NextCli]_vars

----------------------------------------------------------------------------
(* Properties of optimize_code.                                            *)

GeneratorCalls == SelectSeq(calls, LAMBDA cr : cr.op \in GeneratorKinds)

RECURSIVE SumSaved(_)
SumSaved(crs) ==
    IF crs = <<>> THEN 0 ELSE Head(crs).out.memory_saved + SumSaved(Tail(crs))

\* position of an idiom kind in the fixed order
Rank(kind) ==
    CASE kind = "file_operations" -> 1
      [] kind = "list_comprehensions" -> 2
      [] kind = "class_definitions" -> 3
      [] kind = "data_structures" -> 4
      [] OTHER -> 5

IdiomStmt(st) == st.s \in {"read", "readlines", "comp", "listrange"}

\* no detector matches anything in chunk c
Unmatched(c) ==
    /\ \A st \in Range(ChunkStmts(c)) : ~IdiomStmt(st)
    /\ ~(c.k = "class" /\ ~c.hasSlots)

\* C1: an input that is not syntactically valid Python comes back with
\* memory_saved = 0, optimized_code equal to the input, the syntax-error
\* explanation and a non-empty warnings list, and no generator was invoked.
C1_InvalidInputIsReturnedUnchanged ==
    (pc = "done" /\ ~fed /\ Parse(code) = "SyntaxError") =>
        /\ result.memory_saved = 0
        /\ result.optimized_code = code
        /\ result.explanation = <<"Syntax error in input code">>
        /\ result.warnings # <<>>
        /\ GeneratorCalls = <<>>

\* C2: an input that parses and whose tree holds no read/readlines call, no
\* list comprehension, no class without __slots__ and no list(range(...))
\* (the text of an idiom may still occur in a comment or a string) comes
\* back byte-identical with memory_saved = 0.
C2_NoIdiomIsReturnedUnchanged ==
    (pc = "done" /\ ~fed /\ Parse(code) = "ok"
       /\ \A i \in 1..Len(code) : Unmatched(code[i])) =>
        /\ result.optimized_code = code
        /\ result.memory_saved = 0

\* C3: idempotence: optimize_code applied to the optimized_code of an earlier
\* call returns memory_saved = 0 and the text it was given.
C3_Idempotent ==
    (pc = "done" /\ fed) =>
        /\ result.memory_saved = 0
        /\ result.optimized_code = code

\* C4: an empty or whitespace-only input comes back character for character
\* with memory_saved = 0, empty test_code and empty warnings, and neither
\* the parser nor a detector nor a generator was called.
C4_BlankInputIsReturnedAtOnce ==
    (pc = "done" /\ \A i \in 1..Len(code) : code[i].k = "ws") =>
        /\ result.memory_saved = 0
        /\ result.optimized_code = code
        /\ result.original_code = code
        /\ result.test_code = <<>>
        /\ result.warnings = <<>>
        /\ calls = <<>>

\* a whitespace-only (not empty) input has been answered
C4_Witness ==
    /\ pc = "done"
    /\ Len(code) = MaxChunks
    /\ \A i \in 1..Len(code) : code[i].k = "ws"
    /\ result.explanation = <<"No code to optimize.">>

\* C5: after the idiom rewrites of the generator loop, every top-level
\* function or class of the input that no detector matches is still present,
\* unchanged, in optimized_code.
C5_UnmatchedDefinitionsAreKept ==
    (pc = "done" /\ ~fed /\ optimizations # <<>>) =>
        \A i \in 1..Len(code) :
            (code[i].k \in {"def", "class"} /\ Unmatched(code[i])) =>
                \E j \in 1..Len(result.optimized_code) :
                    result.optimized_code[j] = code[i]

\* A class with a whole-file-read method and a filtering list-comprehension
\* method.
HasReadAndFilterMethods(c) ==
    /\ c.k = "class"
    /\ \E i \in 1..Len(c.methods) :
         \E st \in Range(c.methods[i].body) : st.s \in {"read", "readlines"}
    /\ \E i \in 1..Len(c.methods) :
         \E st \in Range(c.methods[i].body) : st.s = "comp" /\ st.cond # ""

\* C6: an input holding a class with both a whole-file-read method and a
\* filtering list-comprehension method, whatever the names (and with no
\* read_file / process_file_lines function beside it), gets
\* memory_saved = 100 and a class with __slots__, a yielding method and a
\* generator-expression method.
C6_CombinedClassSaves100 ==
    (pc = "done" /\ ~fed /\ Parse(code) = "ok"
       /\ (\A i \in 1..Len(code) : code[i].mentions = {})
       /\ ~FileSignature(code)
       /\ \E i \in 1..Len(code) : HasReadAndFilterMethods(code[i])) =>
        /\ result.memory_saved = 100
        /\ \E j \in 1..Len(result.optimized_code) :
             LET c == result.optimized_code[j]
             IN /\ c.k = "class" /\ c.hasSlots
                /\ \E st \in Range(ChunkStmts(c)) : st.s = "yieldloop"
                /\ \E st \in Range(ChunkStmts(c)) : st.s = "genexp"

\* C7: optimize_code never lets an exception reach the caller, and the
\* result it returns carries the input as original_code.
C7_NeverRaises ==
    /\ pc # "raised"
    /\ pc = "done" => result.original_code = code

\* C8: when a generator raises, the other idiom kinds are still applied and
\* their savings and warnings are in the result.
C8_RaisingGeneratorIsIsolated ==
    (pc = "done" /\ \E i \in 1..Len(GeneratorCalls) :
                       GeneratorCalls[i].out.raises # "none") =>
        /\ Len(GeneratorCalls) = Len(optimizations)
        /\ result.memory_saved = SumSaved(GeneratorCalls)
        /\ result.warnings =
             Flatten([i \in 1..Len(GeneratorCalls) |-> GeneratorCalls[i].out.warnings])

\* C9: for an input that parses and takes no text-signature shortcut,
\* memory_saved is the sum of 60, 40, 35 and 50 over the kinds whose
\* detector matches.
C9_SavingsAreTheSumOverMatchedKinds ==
    (pc = "done" /\ ~fed /\ Parse(code) = "ok"
       /\ ~MixedSignature(code) /\ ~FileSignature(code)) =>
        result.memory_saved =
            (IF \E st \in Range(AllStmts(code)) : st.s \in {"read", "readlines"}
               THEN 60 ELSE 0)
          + (IF \E st \in Range(AllStmts(code)) : st.s = "comp" THEN 40 ELSE 0)
          + (IF \E i \in 1..Len(code) : code[i].k = "class" /\ ~code[i].hasSlots
               THEN 35 ELSE 0)
          + (IF \E st \in Range(AllStmts(code)) : st.s = "listrange" THEN 50 ELSE 0)

\* The generator of kind k has something to work on in the input.
KindMatches(k) ==
    CASE k = "file_operations" ->
           \E st \in Range(AllStmts(code)) : st.s \in {"read", "readlines"}
      [] k = "list_comprehensions" -> \E st \in Range(AllStmts(code)) : st.s = "comp"
      [] k = "class_definitions" ->
           \E i \in 1..Len(code) : code[i].k = "class" /\ ~code[i].hasSlots
      [] k = "data_structures" -> \E st \in Range(AllStmts(code)) : st.s = "listrange"
      [] OTHER -> FALSE

----------------------------------------------------------------------------
(* The single-idiom rewrites.                                              *)

\* A top-level "def read_file(filename)" or "def process_file_lines(filename)"
\* that reads the whole file in a with open(...) block.
IsWholeFileReader(c) ==
    /\ c.k = "def"
    /\ c.name \in {"read_file", "process_file_lines"}
    /\ c.param = "filename"
    /\ ~c.typed
    /\ \E st \in Range(c.body) : st.s \in {"read", "readlines"}

\* A function of the text t that yields one transformed line for every
\* line of the open file.
YieldsEveryLine(t) ==
    \E j \in 1..Len(t) :
        /\ t[j].k = "def"
        /\ \E st \in Range(t[j].body) :
             /\ st.s = "yieldloop"
             /\ st.var = "line" /\ st.iter = "f" /\ st.cond = "" /\ st.nfor = 1

\* C11 as stated: every input that defines read_file(filename) or
\* process_file_lines(filename) and reads the whole file in a with open(...)
\* block gets memory_saved = 60 and a function yielding one transformed line
\* per line of the file, whatever else the input holds.
C11_FileReaderSaves60 ==
    (pc = "done" /\ ~fed /\ \E i \in 1..Len(code) : IsWholeFileReader(code[i])) =>
        /\ result.memory_saved = 60
        /\ YieldsEveryLine(result.optimized_code)

\* C11 as amended: the same, for the inputs whose text does not hold all
\* three of "class DataProcessor", "process_file" and "process_numbers" (the
\* combined pattern is tested first, agent.py 52); the function of the
\* output carries the name read_file when the text holds
\* "def read_file(filename)", and process_file_lines otherwise, and nothing
\* but the file-operations generator was invoked.
C11_FileReaderSaves60UnlessCombined ==
    (pc = "done" /\ ~fed
       /\ (\E i \in 1..Len(code) : IsWholeFileReader(code[i]))
       /\ ~(/\ Contains(code, "class DataProcessor")
            /\ Contains(code, "process_file")
            /\ Contains(code, "process_numbers"))) =>
        /\ result.memory_saved = 60
        /\ YieldsEveryLine(result.optimized_code)
        /\ \E j \in 1..Len(result.optimized_code) :
             /\ result.optimized_code[j].k = "def"
             /\ result.optimized_code[j].name =
                  (IF Contains(code, "def read_file(filename)")
                   THEN "read_file" ELSE "process_file_lines")
        /\ Len(calls) = 1

\* process_file_lines, reading with readlines(), beside a class without
\* __slots__ has been answered
C11_Witness ==
    /\ pc = "done" /\ ~fed
    /\ \E i \in 1..Len(code) :
         /\ IsWholeFileReader(code[i])
         /\ \E st \in Range(code[i].body) : st.s = "readlines"
    /\ \E i \in 1..Len(code) : code[i].k = "class" /\ ~code[i].hasSlots
    /\ result.memory_saved = 60

\* The classes of the input that the class-layout detector matches, in
\* source order.
SlotlessClasses == SelectSeq(code, LAMBDA c : c.k = "class" /\ ~c.hasSlots)

\* The input is one class and nothing else but blank text.
SingleClassInput ==
    /\ Len(SelectSeq(code, LAMBDA c : c.k = "class")) = 1
    /\ \A i \in 1..Len(code) : code[i].k \in {"class", "ws"}

\* The names of a sequence are pairwise distinct.
Distinct(q) == \A i \in 1..Len(q) : \A j \in 1..Len(q) : q[i] = q[j] => i = j

\* C12: an input that is a single class without __slots__ (holding no other
\* idiom) whose __init__ assigns distinct attributes a1..an, n >= 1, as
\* statements of its body gets memory_saved = 35 and a class of the same name
\* whose __slots__ lists exactly a1..an in that order and whose constructor
\* assigns them in the same order.
C12_SingleClassGetsItsSlots ==
    (pc = "done" /\ ~fed /\ SingleClassInput /\ Len(SlotlessClasses) = 1
       /\ SlotlessClasses[1].init # <<>>
       /\ SlotlessClasses[1].methods = <<>>
       /\ (\A i \in 1..Len(SlotlessClasses[1].init) : ~SlotlessClasses[1].init[i].nested)
       /\ Distinct(MapSeq(SlotlessClasses[1].init, LAMBDA a : a.attr))) =>
        LET c == SlotlessClasses[1]
            names == MapSeq(c.init, LAMBDA a : a.attr)
        IN /\ result.memory_saved = 35
           /\ \E j \in 1..Len(result.optimized_code) :
                /\ result.optimized_code[j].k = "class"
                /\ result.optimized_code[j].name = c.name
                /\ result.optimized_code[j].hasSlots
                /\ result.optimized_code[j].slots = names
                /\ MapSeq(result.optimized_code[j].init, LAMBDA a : a.attr) = names

\* q without the later occurrences of a name already met
RECURSIVE FirstOccurrences(_, _)
FirstOccurrences(q, seen) ==
    IF q = <<>> THEN <<>>
    ELSE IF Head(q) \in seen THEN FirstOccurrences(Tail(q), seen)
    ELSE <<Head(q)>> \o FirstOccurrences(Tail(q), seen \cup {Head(q)})

\* The names assigned as self.<name> = ... in the constructor of c, in the
\* order of their first assignment in the source.
AssignedNames(c) ==
    FirstOccurrences(MapSeq(SelectSeq(c.init, LAMBDA a : ~a.ann), LAMBDA a : a.attr), {})

\* C13: for every class the class-layout detector matches, instance_vars
\* holds the names assigned as self.<name> = ... in the constructor, in
\* order of first assignment in the source, each name once.
C13_InstanceVarsInFirstAssignmentOrder ==
    (pc \in {"loop", "done"} /\ ~fed) =>
        \A i \in 1..Len(optimizations) :
            optimizations[i].kind = "class_definitions" =>
                /\ Len(optimizations[i].details) = Len(SlotlessClasses)
                /\ \A j \in 1..Len(SlotlessClasses) :
                     /\ optimizations[i].details[j].class_name = SlotlessClasses[j].name
                     /\ optimizations[i].details[j].instance_vars
                          = AssignedNames(SlotlessClasses[j])

\* The list comprehensions of the input, and the statements of the other
\* idioms.
InputComps == SelectSeq(AllStmts(code), LAMBDA st : st.s = "comp")

OnlyComprehensions ==
    /\ Parse(code) = "ok"
    /\ \A st \in Range(AllStmts(code)) : st.s \notin {"read", "readlines", "listrange"}
    /\ \A i \in 1..Len(code) : ~(code[i].k = "class" /\ ~code[i].hasSlots)
    /\ \A i \in 1..Len(code) : code[i].mentions = {}

\* C14: an input whose only idiom is one list comprehension in a function
\* gets a generator expression with the element expression, loop variable,
\* iterable and filter of the comprehension (a filter exactly when the
\* comprehension has one, a for-clause for each of its for-clauses; the
\* expressions compared as ast.unparse writes them), memory_saved = 40 and
\* the single-use caveat.
C14_GeneratorKeepsTheComprehension ==
    (pc = "done" /\ ~fed /\ OnlyComprehensions /\ Len(InputComps) = 1) =>
        /\ result.memory_saved = 40
        /\ result.warnings = <<"Generator expressions are single-use iterables">>
        /\ \E st \in Range(AllStmts(result.optimized_code)) :
             /\ st.s = "genexp"
             /\ st.elt = Unparse(InputComps[1].elt)
             /\ st.var = InputComps[1].var
             /\ st.iter = InputComps[1].iter
             /\ st.cond = Unparse(InputComps[1].cond)
             /\ st.nfor = InputComps[1].nfor

\* The number of for-clauses / for loops in a sequence of statements.
RECURSIVE ForStages(_)
ForStages(sts) ==
    IF sts = <<>> THEN 0 ELSE Head(sts).nfor + ForStages(Tail(sts))

\* The input holds a function in which one list comprehension consumes the
\* list another one built.
ChainedComprehensions ==
    \E i \in 1..Len(code) :
        /\ code[i].k = "def"
        /\ \E a \in 1..Len(code[i].body) : \E b \in 1..Len(code[i].body) :
             /\ a < b
             /\ code[i].body[a].s = "comp" /\ code[i].body[b].s = "comp"
             /\ code[i].body[a].lhs # ""
             /\ code[i].body[b].iter = code[i].body[a].lhs

\* C15: for an input function made of chained list comprehensions (and no
\* other idiom), optimized_code has at least as many for stages as the
\* input has comprehension for-clauses.  Stated for the functions whose
\* lists are not named "filtered" and "squared", the names agent.py 386
\* looks for.
C15_ChainedStagesAreKept ==
    (pc = "done" /\ ~fed /\ OnlyComprehensions /\ ChainedComprehensions
       /\ Len(SelectSeq(code, LAMBDA c : c.k = "def")) = 1
       /\ ~(Contains(code, "filtered = [") /\ Contains(code, "squared = ["))) =>
        ForStages(AllStmts(result.optimized_code)) >= ForStages(InputComps)

----------------------------------------------------------------------------
(* Calls do not depend on one another.                                     *)

\* C16: a call of optimize_code that repeats the argument of the call before
\* it, on the same instance or on another one, and whatever calls came
\* earlier, returns (it does not raise) the same optimized_code, test_code
\* and memory_saved; and no call changes the instance it runs on.
C16_SameInputSameResult ==
    /\ repeated => pc # "raised"
    /\ (repeated /\ pc = "done") =>
         /\ result.optimized_code = previous.optimized_code
         /\ result.test_code = previous.test_code
         /\ result.memory_saved = previous.memory_saved
    /\ \A a \in Agents : optimization_patterns[a] = GeneratorKinds

\* the same instance has answered a second time, after a run through three
\* generators
C16_Witness ==
    /\ pc = "done" /\ repeated
    /\ self = FirstAgent
    /\ Len(GeneratorCalls) >= 3
    /\ previous.memory_saved = 135
    /\ result.memory_saved = 135

----------------------------------------------------------------------------
(* The generated test suite.                                               *)

SharedPreamble ==
    << Line("import unittest", ""), Line("import tempfile", ""), Line("import os", "") >>

Trailer == Line("if __name__ == '__main__': unittest.main()", "")

\* The test bodies of the generators that ran, in the order they ran, their
\* own import lines left out.
TestBodies ==
    Flatten([i \in 1..Len(GeneratorCalls) |->
               SelectSeq(GeneratorCalls[i].out.test_code,
                         LAMBDA l : l.t \notin {"import unittest", "import tempfile",
                                                "import os", "import sys"})])

\* C17: every non-empty test_code optimize_code returns is the merged suite:
\* the shared import preamble once, then the test bodies of the invoked
\* generators in idiom order without their own import lines, then the
\* "if __name__ == '__main__': unittest.main()" trailer.
C17_TestCodeIsTheMergedSuite ==
    (pc = "done" /\ result.test_code # <<>>) =>
        result.test_code = SharedPreamble \o TestBodies \o <<Trailer>>

----------------------------------------------------------------------------
(* The analyzer.                                                           *)

\* C18 as stated: on an input that parses, each flag of analyze_code is
\* true exactly when the agent's detector of that idiom matches:
\* has_large_data_structures with the list(range(...)) detector too.
C18_FlagsAgreeWithDetectors ==
    (analysis.st = "returned" /\ Parse(analysis.text) = "ok") =>
        /\ analysis.out.has_file_operations <=> DetectFileOperations(analysis.text) # <<>>
        /\ analysis.out.has_list_comprehensions
             <=> DetectListComprehensions(analysis.text) # <<>>
        /\ analysis.out.has_classes <=> DetectClassDefinitions(analysis.text) # <<>>
        /\ analysis.out.has_large_data_structures
             <=> DetectDataStructures(analysis.text) # <<>>

\* C18 as amended: the first three flags agree with the detectors;
\* has_large_data_structures is true exactly when the text holds
\* ".read().split", a list(...range(<five digits or more>)) or a bracketed
\* "for ... in ... if ..." (here: a list comprehension with a filter),
\* whatever the list(range(...)) detector finds.
C18_ThreeFlagsAgreeLargeIsTextual ==
    (analysis.st = "returned" /\ Parse(analysis.text) = "ok") =>
        /\ analysis.out.has_file_operations <=> DetectFileOperations(analysis.text) # <<>>
        /\ analysis.out.has_list_comprehensions
             <=> DetectListComprehensions(analysis.text) # <<>>
        /\ analysis.out.has_classes <=> DetectClassDefinitions(analysis.text) # <<>>
        /\ analysis.out.has_large_data_structures
             <=> \/ \E i \in 1..Len(analysis.text) :
                       ".read().split" \in analysis.text[i].mentions
                 \/ \E st \in Range(AllStmts(analysis.text)) :
                       \/ st.s = "listrange" /\ st.elt = "1000000"
                       \/ st.s = "comp" /\ st.cond # ""

\* analyze_code has answered on a class with __slots__ beside a
\* list(range(n)) the detector matches and the flag does not
C18_Witness ==
    /\ analysis.st = "returned"
    /\ \E i \in 1..Len(analysis.text) : analysis.text[i].k = "class" /\ analysis.text[i].hasSlots
    /\ DetectDataStructures(analysis.text) # <<>>
    /\ ~analysis.out.has_large_data_structures
    /\ ~analysis.out.has_classes

\* the issue lines a record of flags asks for, in the order of analyzer.py
\* 27-43: file operations, list comprehensions, classes, large data
IssuesOf(out) ==
    (IF out.has_file_operations THEN <<"File loading into memory">> ELSE <<>>)
    \o (IF out.has_list_comprehensions
          THEN <<"Memory-intensive list comprehensions">> ELSE <<>>)
    \o (IF out.has_classes THEN <<"Classes without __slots__">> ELSE <<>>)
    \o (IF out.has_large_data_structures
          THEN <<"Large data structures in memory">> ELSE <<>>)

\* C19: analyze_code never raises.  On an input the parser rejects it
\* returns a record with the four flags False, no memory_issues and an
\* error marker; on an input that parses the record has no error key and
\* memory_issues holds one line per true flag in the order file
\* operations, list comprehensions, classes, large data structures.
C19_InvalidIsMarkedValidIsListed ==
    analysis.st # "idle" =>
        /\ analysis.st = "returned"
        /\ IF Parse(analysis.text) = "ok"
             THEN /\ analysis.out.error = <<>>
                  /\ analysis.out.memory_issues = IssuesOf(analysis.out)
             ELSE /\ ~analysis.out.has_file_operations
                  /\ ~analysis.out.has_list_comprehensions
                  /\ ~analysis.out.has_classes
                  /\ ~analysis.out.has_large_data_structures
                  /\ analysis.out.memory_issues = <<>>
                  /\ analysis.out.error # <<>>

----------------------------------------------------------------------------
(* The optimizer.                                                          *)

\* C20: apply_optimization called with a name that is not registered raises
\* ValueError at once: no strategy has run and there is no result; called
\* with a registered name it does not raise.
C20_UnknownStrategyRaisesAtOnce ==
    /\ (optimizer.st \notin {"idle", "called"} /\ optimizer.strategy \notin Strategies) =>
          /\ optimizer.st = "raised"
          /\ optimizer.exc = "ValueError"
          /\ optimizer.ran = <<>>
          /\ optimizer.out = NoStrategyResult
    /\ optimizer.strategy \in Strategies =>
          /\ optimizer.st # "raised"
          /\ optimizer.st = "returned" => optimizer.ran = <<optimizer.strategy>>

\* apply_optimization has raised on a text with a class and a name that
\* is not registered
C20_Witness ==
    /\ optimizer.st = "raised"
    /\ optimizer.strategy = "invalid_strategy"
    /\ \E i \in 1..Len(optimizer.code) : optimizer.code[i].k = "class"

\* C21: a registered strategy reports success only when it changed the
\* code: whenever the optimized_code returned equals the input, success is
\* False and changes is empty.
C21_SuccessOnlyWhenChanged ==
    (optimizer.st = "returned" /\ optimizer.out.optimized_code = optimizer.code) =>
        /\ ~optimizer.out.success
        /\ optimizer.out.changes = <<>>

\* C22: on a text the parser rejects, every registered strategy returns a
\* dict with success False, an 'error' entry and optimized_code equal to
\* the input.
C22_InvalidCodeIsReturnedWithError ==
    (optimizer.st \in {"returned", "raised"}
       /\ optimizer.strategy \in Strategies
       /\ Parse(optimizer.code) = "SyntaxError") =>
        /\ optimizer.st = "returned"
        /\ ~optimizer.out.success
        /\ "error" \in optimizer.out.keys
        /\ optimizer.out.optimized_code = optimizer.code

----------------------------------------------------------------------------
(* The backups.                                                            *)

\* the positions of the log where create_backup was called on <stem>.py
BackupsOf(stem) ==
    { i \in 1..Len(log) : log[i].op = "create_backup" /\ log[i].stem = stem }

LastOp == log[Len(log)]

\* C23: find_latest_backup(f) returns the backup of f that create_backup
\* made last, whatever backups, writes and restores of f and of the other
\* file came before, and None when f has no backup.
C23_LatestIsTheLastCreated ==
    (log # <<>> /\ LastOp.op = "find_latest_backup") =>
        IF BackupsOf(LastOp.stem) = {} THEN LastOp.ret = <<>>
        ELSE LastOp.ret =
               log[CHOOSE i \in BackupsOf(LastOp.stem) :
                     \A j \in BackupsOf(LastOp.stem) : j <= i].ret

\* C24: create_backup(f) yields a backup that holds the content f had at
\* the call and leaves f as it was, and no later create_backup overwrites
\* or alters that backup: it still holds that content.
C24_BackupsAreKept ==
    /\ (log # <<>> /\ LastOp.op = "create_backup") =>
          disk[SourcePath(LastOp.stem)].content = LastOp.text
    /\ \A i \in 1..Len(log) :
          log[i].op = "create_backup" =>
             /\ log[i].ret[1] \in DOMAIN disk
             /\ disk[log[i].ret[1]].content = log[i].text

\* the positions of the log where a round trip that has just ended began:
\* create_backup(f) returned b there, f alone was written since (while
\* the clock went on), and the last operation is restore_backup(f, b)
RoundTrips ==
    { i \in 1..Len(log) :
        /\ log[i].op = "create_backup"
        /\ LastOp.op = "restore_backup"
        /\ LastOp.stem = log[i].stem
        /\ LastOp.arg = log[i].ret
        /\ \A j \in (i + 1)..(Len(log) - 1) :
              \/ log[j].op = "tick"
              \/ log[j].op = "write" /\ log[j].stem = log[i].stem }

\* C25: after b = create_backup(f), writes to f and restore_backup(f, b),
\* f holds the content it had when create_backup was called, and b holds
\* it still.
C25_RoundTrip ==
    \A i \in RoundTrips :
        /\ disk[SourcePath(log[i].stem)].content = log[i].text
        /\ disk[log[i].ret[1]].content = log[i].text

\* a round trip has ended in which f was given another text in between
C25_Witness ==
    \E i \in RoundTrips :
        \E j \in (i + 1)..(Len(log) - 1) :
            log[j].op = "write" /\ log[j].text # log[i].text

----------------------------------------------------------------------------
(* The command line.                                                       *)

\* C26: with dry_run set (--dry-run, with --run-tests or without), the
\* run creates, modifies and deletes no file: no target is overwritten, no
\* backup written, no test file written or rewritten.
C26_DryRunLeavesTheDirectory ==
    (cli.pc # "idle" /\ cli.args.dry_run) => disk = cli.before

\* C27: run with --no-backup, the tool creates no backup file for any
\* file it processes.
C27_NoBackupMakesNoBackup ==
    (cli.pc # "idle" /\ cli.args.no_backup) =>
        \A p \in DOMAIN disk : p.kind = "bak" => p \in DOMAIN cli.before

\* the positions in made of what the run did to <stem>.py
Writes(stem) ==
    { i \in 1..Len(cli.made) : cli.made[i] = Effect("write", stem, SourcePath(stem)) }

BackupsBefore(stem, i) ==
    { j \in 1..(i - 1) : cli.made[j].op = "backup" /\ cli.made[j].stem = stem }

\* C30: in a call of optimize_file that is no dry run, the file is
\* overwritten only after a backup holding its original content was made in
\* the same call, and only when the optimized code differs from the
\* original; when create_backup fails the file is never written.
C30_BackupThenWrite ==
    (cli.pc # "idle" /\ ~cli.args.dry_run) =>
        \A stem \in Stems :
           LET original == cli.before[SourcePath(stem)]
           IN /\ disk[SourcePath(stem)] # original => Writes(stem) # {}
              /\ \A i \in Writes(stem) :
                    /\ \E j \in BackupsBefore(stem, i) :
                          /\ cli.made[j].path \in DOMAIN disk
                          /\ cli.made[j].path # SourcePath(stem)
                          /\ disk[cli.made[j].path].content = original.content
                    /\ \A r \in {OptimizeCode(original.content)} :
                          /\ r.raises = "none"
                          /\ r.result.optimized_code # original.content
              /\ (\E i \in 1..Len(cli.made) :
                     cli.made[i] = Effect("no backup", stem, SourcePath(stem)))
                 => /\ Writes(stem) = {}
                    /\ disk[SourcePath(stem)] = original

\* a run has overwritten a file, after the backup, and the run of the
\* directory has gone past a file whose backup failed
C30_Witness ==
    /\ ~cli.args.dry_run
    /\ \E stem \in Stems :
          /\ Writes(stem) # {}
          /\ disk[SourcePath(stem)].content # cli.before[SourcePath(stem)].content
    /\ \E i \in 1..Len(cli.made) : cli.made[i].op = "no backup"
    /\ cli.pc = "done"

----------------------------------------------------------------------------
(* The file-operations generator, and the results as a whole.              *)

\* the names of the functions of the text that hold a read or readlines call
ReadingFunctions(text) ==
    { FunctionDefs(text)[i].name :
        i \in { j \in 1..Len(FunctionDefs(text)) :
                  \E k \in 1..Len(FunctionDefs(text)[j].body) :
                     FunctionDefs(text)[j].body[k].s \in {"read", "readlines"} } }

\* the name of the function a generator returned
EmittedName(out) == out.optimized_code[2].name

\* C28: on the detector path the function the file-operations generator
\* emits has the name of the function that holds the matched read or
\* readlines call, and the name process_file only when the text defines no
\* function.
C28_EmittedNameIsTheReadersName ==
    \A i \in 1..Len(GeneratorCalls) :
       LET cr == GeneratorCalls[i]
       IN (/\ ~MixedSignature(cr.text) /\ ~FileSignature(cr.text)
           /\ cr.op = "file_operations" /\ cr.out.raises = "none") =>
            /\ ReadingFunctions(cr.text) # {} =>
                  EmittedName(cr.out) \in ReadingFunctions(cr.text)
            /\ EmittedName(cr.out) = "process_file" => FunctionDefs(cr.text) = <<>>

\* C29: in every result optimize_code returns, test_code is empty exactly
\* when memory_saved is 0, and when memory_saved is 0 the optimized code is
\* the original code.
C29_TestsExactlyWhenSaved ==
    pc = "done" =>
        /\ (result.test_code = <<>>) <=> (result.memory_saved = 0)
        /\ result.memory_saved = 0 => result.optimized_code = result.original_code

\* a call has returned a result that saves nothing although a generator
\* had rewritten the code: the one after it raised
C29_Witness ==
    /\ pc = "done"
    /\ result.memory_saved = 0
    /\ \E i \in 1..Len(GeneratorCalls) :
          /\ GeneratorCalls[i].out.raises = "none"
          /\ GeneratorCalls[i].out.optimized_code # code

====
